---- MODULE Spec2Model ----
(***************************************************************************)
(* ACH auto-email map/reduce script (tsc_mr_ohs27_auto_ach_email).         *)
(*                                                                         *)
(* The script has four entry points that the map/reduce framework calls   *)
(* in order: getInputData, map (once per search result), reduce (once per *)
(* key written by map) and summarize.  The model follows the revision of  *)
(* the script that has the SKIPPED_RECORDS / ERROR_RECORDS side channel   *)
(* and the summary report.                                                 *)
(*                                                                         *)
(* Strings are sequences of tokens; concatenation is \o.  The character   *)
(* "_" is always a token of its own, so that String.split('_') can be      *)
(* computed on the token sequence.  The empty sequence stands for every   *)
(* falsy field value (undefined, null, ''): the script only ever tests    *)
(* these fields for truthiness.                                            *)
(***************************************************************************)
EXTENDS Naturals, Sequences, FiniteSets, TLC

(***************************************************************************)
(* Bounds of the model.                                                    *)
(***************************************************************************)
\* number of search results (vendor payments) of one run
MaxRecords == 3
\* number of search results of a run of the map stage alone (SpecMap)
MaxMapRecords == 1
\* the most search results of a run checked for termination
MaxFairRecords == 2
\* the most search results of a run over pairs that share a key
MaxPairRecords == 2
\* the most search results of a run in which reduce invocations are repeated
MaxRestartRecords == 2
\* the most reduce invocations made again in one run
MaxRestarts == 1

(***************************************************************************)
(* Strings.                                                                *)
(***************************************************************************)
EMPTY == << >>
SEP == "_"
NA == <<"N/A">>
SKIPPED_RECORDS == <<"SKIPPED", "_", "RECORDS">>
ERROR_RECORDS == <<"ERROR", "_", "RECORDS">>

\* x || 'N/A'
orNA(x) == IF x = EMPTY THEN NA ELSE x

RECURSIVE join(_, _)
\* Array.prototype.join on an array of single-token strings
join(arr, sep) ==
    IF arr = << >> THEN EMPTY
    ELSE IF Len(arr) = 1 THEN <<arr[1]>>
    ELSE <<arr[1], sep>> \o join(Tail(arr), sep)

RECURSIVE split(_, _)
\* String.prototype.split(sep): the pieces of str between the sep tokens
split(str, sep) ==
    IF \A i \in 1..Len(str) : str[i] # sep THEN <<str>>
    ELSE LET i == CHOOSE j \in 1..Len(str) :
                      str[j] = sep /\ \A h \in 1..(j-1) : str[h] # sep
         IN  <<SubSeq(str, 1, i-1)>> \o split(SubSeq(str, i+1, Len(str)), sep)

\* the tokens that are decimal numbers
Digits == {"1", "7", "8", "10", "55", "101", "102"}

\* parseInt: the leading number of the string, NaN when there is none
parseInt(str) ==
    IF str # EMPTY /\ str[1] \in Digits THEN <<str[1]>> ELSE <<"NaN">>

\* arr[i] of a JavaScript array (0-based); undefined is modelled as EMPTY
at(arr, i) == IF i + 1 <= Len(arr) THEN arr[i + 1] ELSE EMPTY

(***************************************************************************)
(* Raw search results (mapContext.value).                                  *)
(*   kind "unparseable": JSON.parse throws                                 *)
(*   kind "novalues":    the parsed object has no `values` member          *)
(*   kind "ok":          `values` is an object with the fields below       *)
(***************************************************************************)
AccountValues == {<<"101">>, <<"102">>}
EntityValues == {<<"7">>, <<"8">>}

Raw(k, av, ev, et, td, ti, em, pp) ==
    [kind |-> k, account_value |-> av, entity_value |-> ev, entity_text |-> et,
     trandate |-> td, tranid |-> ti, email_vendor |-> em, postingperiod_text |-> pp]

Malformed(k) == Raw(k, EMPTY, EMPTY, EMPTY, EMPTY, EMPTY, EMPTY, EMPTY)

\* every shape of search result the map stage is checked on
RawRecords ==
    { Malformed("unparseable"), Malformed("novalues") } \cup
    { Raw("ok", av, ev, et, td, ti, em, pp) :
        av \in AccountValues \cup {EMPTY, <<"SKIPPED">>},
        ev \in {<<"7">>, EMPTY, <<"RECORDS">>},
        et \in {<<"Vendor">>, EMPTY},
        td \in {<<"1/2/2025">>, EMPTY},
        ti \in {<<"PAY7">>, EMPTY},
        em \in {<<"v@x.com">>, EMPTY},
        pp \in {<<"Jan 2025">>, EMPTY} }

Valid(av, ev) ==
    Raw("ok", av, ev, <<"Vendor">>, <<"1/2/2025">>, <<"PAY7">>, <<"v@x.com">>, <<"Jan 2025">>)

\* the shapes of search result a whole run is checked on
RunRecords ==
    { Valid(<<"101">>, <<"7">>), Valid(<<"101">>, <<"8">>),
      Raw("ok", <<"101">>, <<"7">>, <<"Vendor">>, <<"1/2/2025">>, <<"PAY7">>, EMPTY, EMPTY),
      Malformed("novalues") }

(***************************************************************************)
(* map                                                                     *)
(***************************************************************************)
\* missingFieldsOf stopping at the first missing field
missingFieldsOf_firstOnly(values) ==
    IF values.account_value = EMPTY THEN <<"account">>
    ELSE IF values.entity_value = EMPTY THEN <<"entity">>
    ELSE IF values.trandate = EMPTY THEN <<"transaction date">>
    ELSE IF values.tranid = EMPTY THEN <<"transaction ID">>
    ELSE IF values.email_vendor = EMPTY THEN <<"vendor email">>
    ELSE << >>

\* missingFieldsOf without the check of the vendor email
missingFieldsOf_noEmail(values) ==
    (IF values.account_value = EMPTY THEN <<"account">> ELSE << >>) \o
    (IF values.entity_value = EMPTY THEN <<"entity">> ELSE << >>) \o
    (IF values.trandate = EMPTY THEN <<"transaction date">> ELSE << >>) \o
    (IF values.tranid = EMPTY THEN <<"transaction ID">> ELSE << >>)

\* the required-field checks, in source order
missingFieldsOf(values) ==
    (IF values.account_value = EMPTY THEN <<"account">> ELSE << >>) \o
    (IF values.entity_value = EMPTY THEN <<"entity">> ELSE << >>) \o
    (IF values.trandate = EMPTY THEN <<"transaction date">> ELSE << >>) \o
    (IF values.tranid = EMPTY THEN <<"transaction ID">> ELSE << >>) \o
    (IF values.email_vendor = EMPTY THEN <<"vendor email">> ELSE << >>)

\* the entry written under SKIPPED_RECORDS
skippedEntry(key, values, missingFields) ==
    [recordId |-> key,
     tranid |-> orNA(values.tranid),
     entity |-> orNA(values.entity_text),
     accountId |-> orNA(values.account_value),
     entityId |-> orNA(values.entity_value),
     errorNote |-> <<"Missing required fields: ">> \o join(missingFields, ", "),
     missingFields |-> missingFields]

\* the key of an ordinary group
groupKey(values) == values.account_value \o <<SEP>> \o values.entity_value

\* the normalized order object
orderObj(key, values) ==
    [orderId |-> key,
     accountId |-> groupKey(values),
     orderDate |-> values.trandate,
     postingPeriod |-> values.postingperiod_text,
     orderNumber |-> values.tranid,
     entity |-> values.entity_text,
     vendorEmail |-> values.email_vendor]

\* the catch block of map: `values` is declared with const inside the try
\* block, so the catch block's first read of it raises a ReferenceError
\* before mapContext.write is called; the error leaves the map invocation.
mapCatch(key) ==
    [writes |-> << >>, threw |-> TRUE, logs |-> << >>]

\* one map invocation: what it writes, what it logs, whether it throws
map(key, value) ==
    IF value.kind # "ok" THEN mapCatch(key)
    ELSE LET missingFields == missingFieldsOf(value) IN
         IF Len(missingFields) > 0
         THEN [writes |-> << [key |-> SKIPPED_RECORDS,
                              value |-> skippedEntry(key, value, missingFields)] >>,
               threw |-> FALSE,
               logs |-> << [title |-> "Skipping record with missing required fields",
                            ctx |-> <<key>>] >>]
         ELSE [writes |-> << [key |-> groupKey(value), value |-> orderObj(key, value)] >>,
               threw |-> FALSE,
               logs |-> << >>]

(***************************************************************************)
(* reduce and its helpers.  The outcome of every collaborator call of one *)
(* invocation is an input `oc`:                                            *)
(*   oc.template   the template-mapping search returns a row               *)
(*   oc.renderFail the transactions whose voucher rendering throws         *)
(*   oc.merge      render.mergeEmail returns                               *)
(*   oc.send       email.send returns                                      *)
(*   oc.saveFail   the transactions whose load/setValue/save throws        *)
(* An invocation yields the collaborator calls it made, in order, what it *)
(* wrote to the reduce output, what it logged and whether it threw.  A    *)
(* call is [op, arg, ok, att]: "findTemplate" (arg the account id),       *)
(* "render" and "save" (arg the transaction id), "merge" (arg the         *)
(* template id, att the entity and recipient ids) and "send" (arg the     *)
(* recipients, att the attachments).                                       *)
(***************************************************************************)
Call(op, arg, ok, att) == [op |-> op, arg |-> arg, ok |-> ok, att |-> att]
Log(title, ctx) == [title |-> title, ctx |-> ctx]

\* the file object created for one rendered voucher
pdfFile(transactionId) == <<"ACH_Payment_", transactionId, ".pdf">>

\* searchRelatedEmailTemplate returning no id instead of throwing
searchRelatedEmailTemplate_noThrow(accountId, found) ==
    [threw |-> FALSE,
     templateId |-> IF found THEN <<"template-of-">> \o accountId ELSE EMPTY,
     calls |-> << Call("findTemplate", accountId, found, << >>) >>,
     logs |-> IF found THEN << >> ELSE << Log("searchRelatedEmailTemplate", accountId) >>]

\* searchRelatedEmailTemplate: the template id, or an error that is logged
\* and thrown on to the caller
searchRelatedEmailTemplate(accountId, found) ==
    IF found
    THEN [threw |-> FALSE, templateId |-> <<"template-of-">> \o accountId,
          calls |-> << Call("findTemplate", accountId, TRUE, << >>) >>,
          logs |-> << >>]
    ELSE [threw |-> TRUE, templateId |-> EMPTY,
          calls |-> << Call("findTemplate", accountId, FALSE, << >>) >>,
          logs |-> << Log("searchRelatedEmailTemplate", accountId) >>]

RECURSIVE generateIndividualPaymentVoucher_stopAtFailure(_, _)
\* generateIndividualPaymentVoucher with the try/catch around the whole loop
generateIndividualPaymentVoucher_stopAtFailure(transactionIds, renderFail) ==
    IF transactionIds = << >> THEN [pdfFiles |-> << >>, calls |-> << >>, logs |-> << >>]
    ELSE LET transactionId == Head(transactionIds) IN
         IF transactionId \in renderFail
         THEN [pdfFiles |-> << >>,
               calls |-> << Call("render", <<transactionId>>, FALSE, << >>) >>,
               logs |-> << Log("Error generating PDF for transaction", <<transactionId>>) >>]
         ELSE LET rest == generateIndividualPaymentVoucher_stopAtFailure(
                              Tail(transactionIds), renderFail)
              IN  [pdfFiles |-> << pdfFile(transactionId) >> \o rest.pdfFiles,
                   calls |-> << Call("render", <<transactionId>>, TRUE, << >>) >>
                             \o rest.calls,
                   logs |-> rest.logs]

\* generateIndividualPaymentVoucher rendering the first transaction only
generateIndividualPaymentVoucher_firstOnly(transactionIds, renderFail) ==
    IF transactionIds = << >> THEN [pdfFiles |-> << >>, calls |-> << >>, logs |-> << >>]
    ELSE LET transactionId == Head(transactionIds) IN
         IF transactionId \in renderFail
         THEN [pdfFiles |-> << >>,
               calls |-> << Call("render", <<transactionId>>, FALSE, << >>) >>,
               logs |-> << Log("Error generating PDF for transaction", <<transactionId>>) >>]
         ELSE [pdfFiles |-> << pdfFile(transactionId) >>,
               calls |-> << Call("render", <<transactionId>>, TRUE, << >>) >>,
               logs |-> << >>]

RECURSIVE generateIndividualPaymentVoucher(_, _)
\* generateIndividualPaymentVoucher: one render attempt per transaction, in
\* order; a failure is caught and logged and the file is left out
generateIndividualPaymentVoucher(transactionIds, renderFail) ==
    IF transactionIds = << >> THEN [pdfFiles |-> << >>, calls |-> << >>, logs |-> << >>]
    ELSE LET transactionId == Head(transactionIds)
             rest == generateIndividualPaymentVoucher(Tail(transactionIds), renderFail)
         IN  IF transactionId \in renderFail
             THEN [pdfFiles |-> rest.pdfFiles,
                   calls |-> << Call("render", <<transactionId>>, FALSE, << >>) >> \o rest.calls,
                   logs |-> << Log("Error generating PDF for transaction", <<transactionId>>) >>
                            \o rest.logs]
             ELSE [pdfFiles |-> << pdfFile(transactionId) >> \o rest.pdfFiles,
                   calls |-> << Call("render", <<transactionId>>, TRUE, << >>) >> \o rest.calls,
                   logs |-> rest.logs]

RECURSIVE updateEmailSent(_, _)
\* the forEach that loads each payment, sets the email-sent field and saves:
\* the first failure leaves the loop
updateEmailSent(transactionsId, saveFail) ==
    IF transactionsId = << >> THEN [threw |-> FALSE, calls |-> << >>]
    ELSE LET transactionId == Head(transactionsId) IN
         IF transactionId \in saveFail
         THEN [threw |-> TRUE, calls |-> << Call("save", <<transactionId>>, FALSE, << >>) >>]
         ELSE LET rest == updateEmailSent(Tail(transactionsId), saveFail)
              IN  [threw |-> rest.threw,
                   calls |-> << Call("save", <<transactionId>>, TRUE, << >>) >> \o rest.calls]

\* sendAndFlag with an empty catch block
sendAndFlag_noLog(key, emailObj, transactionsId, oc) ==
    IF ~oc.send
    THEN [calls |-> << Call("send", emailObj.recipients, FALSE, emailObj.attachments) >>,
          logs |-> << >>]
    ELSE LET upd == updateEmailSent(transactionsId, oc.saveFail)
         IN  [calls |-> << Call("send", emailObj.recipients, TRUE, emailObj.attachments) >>
                        \o upd.calls,
              logs |-> << >>]

\* sendAndFlag sending once more after a send that failed
sendAndFlag_resend(key, emailObj, transactionsId, oc) ==
    IF ~oc.send
    THEN [calls |-> << Call("send", emailObj.recipients, FALSE, emailObj.attachments),
                       Call("send", emailObj.recipients, FALSE, emailObj.attachments) >>,
          logs |-> << Log("sendEmail", key) >>]
    ELSE LET upd == updateEmailSent(transactionsId, oc.saveFail)
         IN  [calls |-> << Call("send", emailObj.recipients, TRUE, emailObj.attachments) >>
                        \o upd.calls,
              logs |-> IF upd.threw THEN << Log("sendEmail", key) >> ELSE << >>]

\* sendAndFlag with the flag updates outside the try block of the send
sendAndFlag_flagsAnyway(key, emailObj, transactionsId, oc) ==
    LET upd == updateEmailSent(transactionsId, oc.saveFail)
    IN  [calls |-> << Call("send", emailObj.recipients, oc.send, emailObj.attachments) >>
                   \o upd.calls,
         logs |-> IF ~oc.send \/ upd.threw THEN << Log("sendEmail", key) >> ELSE << >>]

\* sendAndFlag doing nothing when there is nothing to attach
sendAndFlag_needsAttachment(key, emailObj, transactionsId, oc) ==
    IF emailObj.attachments = << >>
    THEN [calls |-> << >>, logs |-> << >>]
    ELSE IF ~oc.send
    THEN [calls |-> << Call("send", emailObj.recipients, FALSE, emailObj.attachments) >>,
          logs |-> << Log("sendEmail", key) >>]
    ELSE LET upd == updateEmailSent(transactionsId, oc.saveFail)
         IN  [calls |-> << Call("send", emailObj.recipients, TRUE, emailObj.attachments) >>
                        \o upd.calls,
              logs |-> IF upd.threw THEN << Log("sendEmail", key) >> ELSE << >>]

\* the inner try block of reduce: send, then flag every payment; whatever
\* throws in it is logged as 'sendEmail'
sendAndFlag(key, emailObj, transactionsId, oc) ==
    IF ~oc.send
    THEN [calls |-> << Call("send", emailObj.recipients, FALSE, emailObj.attachments) >>,
          logs |-> << Log("sendEmail", key) >>]
    ELSE LET upd == updateEmailSent(transactionsId, oc.saveFail)
         IN  [calls |-> << Call("send", emailObj.recipients, TRUE, emailObj.attachments) >>
                        \o upd.calls,
              logs |-> IF upd.threw THEN << Log("sendEmail", key) >> ELSE << >>]

\* transactionsIdOf reading the values last to first
transactionsIdOf_reversed(values) ==
    [i \in 1..Len(values) |-> values[Len(values) + 1 - i].orderId]

\* transactionsIdOf naming the first search result for every value
transactionsIdOf_firstRecord(values) == [i \in 1..Len(values) |-> "1"]

\* orderObj.orderId of every value of the group, in order
transactionsIdOf(values) == [i \in 1..Len(values) |-> values[i].orderId]

\* reducePassThrough keeping the first value only
reducePassThrough_keepsFirst(key, values) ==
    [calls |-> << >>, writes |-> << [key |-> key, value |-> SubSeq(values, 1, 1)] >>,
     logs |-> << >>, threw |-> FALSE]

\* the pass-through of a reserved key
reducePassThrough(key, values) ==
    [calls |-> << >>, writes |-> << [key |-> key, value |-> values] >>,
     logs |-> << >>, threw |-> FALSE]

\* reduceGroup without the outer catch around render.mergeEmail: the error
\* leaves the invocation
reduceGroup_mergeEscapes(key, values, authorId, oc) ==
    LET vendorId == at(split(key, SEP), 1)
        accountId == at(split(key, SEP), 0)
        tpl == searchRelatedEmailTemplate(accountId, oc.template)
    IN  IF tpl.threw
        THEN [calls |-> tpl.calls, writes |-> << >>,
              logs |-> tpl.logs \o << Log("reduce", key) >>, threw |-> FALSE]
        ELSE
        LET transactionsId == transactionsIdOf(values)
            gen == generateIndividualPaymentVoucher(transactionsId, oc.renderFail)
            mergeCall == Call("merge", tpl.templateId, oc.merge,
                              <<parseInt(authorId), parseInt(vendorId)>>)
        IN  IF ~oc.merge
            THEN [calls |-> tpl.calls \o gen.calls \o << mergeCall >>, writes |-> << >>,
                  logs |-> gen.logs, threw |-> TRUE]
            ELSE
            LET emailObj == [author |-> authorId, recipients |-> vendorId,
                             attachments |-> gen.pdfFiles]
                snd == sendAndFlag(key, emailObj, transactionsId, oc)
            IN  [calls |-> tpl.calls \o gen.calls \o << mergeCall >> \o snd.calls,
                 writes |-> << >>,
                 logs |-> gen.logs \o snd.logs, threw |-> FALSE]

\* the voucher-and-notification part of reduce
reduceGroup(key, values, authorId, oc) ==
    LET vendorId == at(split(key, SEP), 1)
        accountId == at(split(key, SEP), 0)
        tpl == searchRelatedEmailTemplate(accountId, oc.template)
    IN  IF tpl.threw
        THEN [calls |-> tpl.calls, writes |-> << >>,
              logs |-> tpl.logs \o << Log("reduce", key) >>, threw |-> FALSE]
        ELSE
        LET transactionsId == transactionsIdOf(values)
            gen == generateIndividualPaymentVoucher(transactionsId, oc.renderFail)
            mergeCall == Call("merge", tpl.templateId, oc.merge,
                              <<parseInt(authorId), parseInt(vendorId)>>)
        IN  IF ~oc.merge
            THEN [calls |-> tpl.calls \o gen.calls \o << mergeCall >>, writes |-> << >>,
                  logs |-> gen.logs \o << Log("reduce", key) >>, threw |-> FALSE]
            ELSE
            LET emailObj == [author |-> authorId, recipients |-> vendorId,
                             attachments |-> gen.pdfFiles]
                snd == sendAndFlag(key, emailObj, transactionsId, oc)
            IN  [calls |-> tpl.calls \o gen.calls \o << mergeCall >> \o snd.calls,
                 writes |-> << >>,
                 logs |-> gen.logs \o snd.logs, threw |-> FALSE]

\* one reduce invocation
reduce(key, values, authorId, oc) ==
    IF key = SKIPPED_RECORDS \/ key = ERROR_RECORDS
    THEN reducePassThrough(key, values)
    ELSE reduceGroup(key, values, authorId, oc)

(***************************************************************************)
(* summarize                                                               *)
(***************************************************************************)
OPS_RECIPIENT == <<"admin@yourcompany.com">>

\* a field of a bucket entry that may be absent (an order object that reached
\* a reserved key has no such field)
field(record, f) == IF f \in DOMAIN record THEN record[f] ELSE EMPTY

RECURSIVE lastValueOf(_, _, _)
\* the iterator over the reduce output: the value of the last entry under
\* key, dflt when there is none
lastValueOf(output, key, dflt) ==
    IF output = << >> THEN dflt
    ELSE LET last == output[Len(output)] IN
         IF last.key = key THEN last.value
         ELSE lastValueOf(SubSeq(output, 1, Len(output) - 1), key, dflt)

\* the number of output entries under a key that is not reserved
processedRecordsCountOf(output) ==
    Cardinality({ i \in 1..Len(output) :
        output[i].key # SKIPPED_RECORDS /\ output[i].key # ERROR_RECORDS })

\* the summary report; totalRecordsProcessed is the record count that the
\* framework's input summary reports
summaryReportOf(output, totalRecords) ==
    LET skippedRecords == lastValueOf(output, SKIPPED_RECORDS, << >>)
        errorRecords == lastValueOf(output, ERROR_RECORDS, << >>)
    IN  [totalRecordsProcessed |-> totalRecords,
         successfullyProcessed |-> processedRecordsCountOf(output),
         skippedRecords |->
            [count |-> Len(skippedRecords),
             details |-> [i \in 1..Len(skippedRecords) |->
                            [f \in {"recordId", "tranid", "entity", "accountId",
                                    "entityId", "errorNote"} |->
                                field(skippedRecords[i], f)]]],
         errorRecords |->
            [count |-> Len(errorRecords),
             details |-> [i \in 1..Len(errorRecords) |->
                            [f \in {"recordId", "tranid", "entity", "accountId",
                                    "entityId", "errorNote"} |->
                                field(errorRecords[i], f)]]]]

\* the operational notification: the subject, and the body as the summary
\* lines, the rows of the skipped table and the rows of the error table
notificationOf(output, totalRecords, authorId) ==
    LET skippedRecords == lastValueOf(output, SKIPPED_RECORDS, << >>)
        errorRecords == lastValueOf(output, ERROR_RECORDS, << >>)
        report == summaryReportOf(output, totalRecords)
    IN  [author |-> authorId,
         recipients |-> OPS_RECIPIENT,
         subject |-> <<"ACH Payment Processing Report: ", ToString(Len(skippedRecords)),
                       " Skipped, ", ToString(Len(errorRecords)), " Errors">>,
         body |-> [totalRecords |-> report.totalRecordsProcessed,
                   successfullyProcessed |-> report.successfullyProcessed,
                   skippedRows |-> [i \in 1..Len(skippedRecords) |->
                                      [f \in {"tranid", "entity", "accountId", "errorNote"} |->
                                          field(skippedRecords[i], f)]],
                   errorRows |-> << >>],
         isHtml |-> TRUE]

\* summarize notifying only when both buckets have entries
summarize_bothBuckets(output, totalRecords, authorId, sendOk) ==
    LET skippedRecords == lastValueOf(output, SKIPPED_RECORDS, << >>)
        errorRecords == lastValueOf(output, ERROR_RECORDS, << >>)
        report == summaryReportOf(output, totalRecords)
    IN  IF Len(skippedRecords) > 0 /\ Len(errorRecords) > 0
        THEN [report |-> << report >>,
              sends |-> << [email |-> notificationOf(output, totalRecords, authorId),
                            ok |-> sendOk] >>,
              logs |-> IF sendOk THEN << >>
                       ELSE << Log("Error in summarize stage", <<"email.send">>) >>,
              threw |-> FALSE]
        ELSE [report |-> << report >>, sends |-> << >>, logs |-> << >>, threw |-> FALSE]

\* summarize sending the notification again when the send fails
summarize_retry(output, totalRecords, authorId, sendOk) ==
    LET skippedRecords == lastValueOf(output, SKIPPED_RECORDS, << >>)
        errorRecords == lastValueOf(output, ERROR_RECORDS, << >>)
        report == summaryReportOf(output, totalRecords)
        send == [email |-> notificationOf(output, totalRecords, authorId), ok |-> sendOk]
    IN  IF Len(skippedRecords) > 0 \/ Len(errorRecords) > 0
        THEN [report |-> << report >>,
              sends |-> IF sendOk THEN << send >> ELSE << send, send >>,
              logs |-> IF sendOk THEN << >>
                       ELSE << Log("Error in summarize stage", <<"email.send">>) >>,
              threw |-> FALSE]
        ELSE [report |-> << report >>, sends |-> << >>, logs |-> << >>, threw |-> FALSE]

\* summarize without its try/catch: a failed send leaves the stage as an error
summarize_noCatch(output, totalRecords, authorId, sendOk) ==
    LET skippedRecords == lastValueOf(output, SKIPPED_RECORDS, << >>)
        errorRecords == lastValueOf(output, ERROR_RECORDS, << >>)
        report == summaryReportOf(output, totalRecords)
    IN  IF Len(skippedRecords) > 0 \/ Len(errorRecords) > 0
        THEN [report |-> << report >>,
              sends |-> << [email |-> notificationOf(output, totalRecords, authorId),
                            ok |-> sendOk] >>,
              logs |-> << >>,
              threw |-> ~sendOk]
        ELSE [report |-> << report >>, sends |-> << >>, logs |-> << >>, threw |-> FALSE]

\* one summarize invocation: the report it logs, the notification sends it
\* attempts, what it logs as an error
summarize(output, totalRecords, authorId, sendOk) ==
    LET skippedRecords == lastValueOf(output, SKIPPED_RECORDS, << >>)
        errorRecords == lastValueOf(output, ERROR_RECORDS, << >>)
        report == summaryReportOf(output, totalRecords)
    IN  IF Len(skippedRecords) > 0 \/ Len(errorRecords) > 0
        THEN [report |-> << report >>,
              sends |-> << [email |-> notificationOf(output, totalRecords, authorId),
                            ok |-> sendOk] >>,
              logs |-> IF sendOk THEN << >>
                       ELSE << Log("Error in summarize stage", <<"email.send">>) >>,
              threw |-> FALSE]
        ELSE [report |-> << report >>, sends |-> << >>, logs |-> << >>, threw |-> FALSE]

(***************************************************************************)
(* The run.                                                                *)
(***************************************************************************)
VARIABLES
    stage,        \* where the run is
    params,       \* the script parameters of the deployment
    totalRecords, \* the number of results of the eligible-payments search
    input,        \* the search result each mapped record id had
    mapErrors,    \* the record ids whose map invocation threw
    shuffle,      \* key -> the values written by map under it, in order
    reduced,      \* the keys whose reduce invocation has returned
    reduceErrors, \* the keys whose reduce invocation threw
    output,       \* the entries written by reduce, in order
    calls,        \* key -> the collaborator calls of its reduce invocation
    emailSent,    \* record id -> the persisted email-sent field of the payment
    log,          \* the error log
    summary,      \* the summary report(s) logged by summarize
    notices       \* the notification sends attempted by summarize

vars == <<stage, params, totalRecords, input, mapErrors, shuffle, reduced,
          reduceErrors, output, calls, emailSent, log, summary, notices>>

\* the internal id of the i-th search result (mapContext.key)
RecordId(i) == ToString(i)
RecordIds(n) == { RecordId(i) : i \in 1..n }

\* a parameter is set or not
ParamSets ==
    [searchId : {<<"customsearch_ach">>, EMPTY},
     printTemplateId : {<<"CUSTTMPL_ACH">>, EMPTY},
     authorId : {<<"55">>, EMPTY}]

\* the collaborator outcomes of one reduce invocation over a group.  The
\* outcome of a call that is never made is fixed: nothing is rendered or
\* merged without a template, nothing is sent without a merged email,
\* nothing is saved without a send, and the first save that throws is the
\* last one made.
Outcomes(ids) ==
    { oc \in [template : BOOLEAN, renderFail : SUBSET ids, merge : BOOLEAN,
              send : BOOLEAN, saveFail : SUBSET ids] :
        /\ ~oc.template => (oc.renderFail = {} /\ ~oc.merge)
        /\ ~oc.merge => ~oc.send
        /\ ~oc.send => oc.saveFail = {}
        /\ Cardinality(oc.saveFail) <= 1 }

\* f with v appended to the sequence under k
appendUnder(f, k, v) ==
    IF k \in DOMAIN f THEN [f EXCEPT ![k] = Append(@, v)] ELSE f @@ (k :> <<v>>)

RECURSIVE writeAll(_, _)
\* the shuffle after the writes of one map invocation
writeAll(f, writes) ==
    IF writes = << >> THEN f
    ELSE writeAll(appendUnder(f, writes[1].key, writes[1].value), Tail(writes))

\* the elements of a sequence
Range(seq) == { seq[i] : i \in 1..Len(seq) }

\* the missing-parameter list of getInputData, in source order
missingParamsOf(p) ==
    (IF p.searchId = EMPTY THEN <<"Eligible ACH Payments Search">> ELSE << >>) \o
    (IF p.printTemplateId = EMPTY THEN <<"Print Template ID">> ELSE << >>) \o
    (IF p.authorId = EMPTY THEN <<"Email Author">> ELSE << >>)

\* the start of a run of a deployment whose parameters are among P
InitOver(P) ==
    /\ stage = "Collecting Input"
    /\ params \in P
    /\ totalRecords = 0
    /\ input = << >>
    /\ mapErrors = {}
    /\ shuffle = << >>
    /\ reduced = {}
    /\ reduceErrors = {}
    /\ output = << >>
    /\ calls = << >>
    /\ emailSent = [id \in RecordIds(MaxRecords) |-> FALSE]
    /\ log = {}
    /\ summary = << >>
    /\ notices = << >>

Init == InitOver(ParamSets)

\* getInputData: throws when a parameter is missing or the search cannot be
\* loaded, else hands the search of up to maxN results to the map stage
getInputData(maxN) ==
    /\ stage = "Collecting Input"
    /\ LET missingParams == missingParamsOf(params) IN
       \/ /\ Len(missingParams) > 0
          /\ stage' = "Aborted"
          /\ log' = log \cup { Log("Error in getInputData",
                        <<"Required script parameter(s) not configured: ">>
                        \o join(missingParams, ", ")) }
          /\ totalRecords' = totalRecords
       \/ /\ Len(missingParams) = 0
          /\ stage' = "Aborted"
          /\ log' = log \cup { Log("Error in getInputData",
                        <<"Invalid search ID (">> \o params.searchId \o <<")">>) }
          /\ totalRecords' = totalRecords
       \/ /\ Len(missingParams) = 0
          /\ stage' = "Normalizing"
          /\ totalRecords' \in 0..maxN
          /\ log' = log
    /\ UNCHANGED <<params, input, mapErrors, shuffle, reduced, reduceErrors, output,
                   calls, emailSent, summary, notices>>

\* the map stage applies map to one search result not mapped yet
MapStep(records) ==
    /\ stage = "Normalizing"
    /\ \E id \in RecordIds(totalRecords) \ DOMAIN input : \E value \in records :
         LET r == map(id, value) IN
         /\ input' = input @@ (id :> value)
         /\ shuffle' = writeAll(shuffle, r.writes)
         /\ mapErrors' = IF r.threw THEN mapErrors \cup {id} ELSE mapErrors
         /\ log' = log \cup Range(r.logs)
    /\ UNCHANGED <<stage, params, totalRecords, reduced, reduceErrors, output, calls,
                   emailSent, summary, notices>>

\* the framework groups the map output by key once every result is mapped
Shuffle ==
    /\ stage = "Normalizing"
    /\ DOMAIN input = RecordIds(totalRecords)
    /\ stage' = "Generating-And-Notifying"
    /\ UNCHANGED <<params, totalRecords, input, mapErrors, shuffle, reduced,
                   reduceErrors, output, calls, emailSent, log, summary, notices>>

\* the payments flagged by the calls of one invocation
savedBy(cs) == { c.arg[1] : c \in { d \in Range(cs) : d.op = "save" /\ d.ok } }

\* the payments whose collaborator calls a reduce invocation can make
paymentsOf(key, values) ==
    IF key = SKIPPED_RECORDS \/ key = ERROR_RECORDS THEN {}
    ELSE Range(transactionsIdOf(values))

\* the reduce stage applies reduce to one key not reduced yet
ReduceStep ==
    /\ stage = "Generating-And-Notifying"
    /\ \E key \in DOMAIN shuffle \ reduced :
       \E oc \in Outcomes(paymentsOf(key, shuffle[key])) :
         LET r == reduce(key, shuffle[key], params.authorId, oc) IN
         /\ reduced' = reduced \cup {key}
         /\ reduceErrors' = IF r.threw THEN reduceErrors \cup {key} ELSE reduceErrors
         /\ output' = output \o r.writes
         /\ calls' = calls @@ (key :> r.calls)
         /\ emailSent' = [id \in DOMAIN emailSent |->
                            emailSent[id] \/ id \in savedBy(r.calls)]
         /\ log' = log \cup Range(r.logs)
    /\ UNCHANGED <<stage, params, totalRecords, input, mapErrors, shuffle, summary,
                   notices>>

\* summarize runs once every key is reduced; an error it let escape would
\* fail the stage
SummarizeStep ==
    /\ stage = "Generating-And-Notifying"
    /\ reduced = DOMAIN shuffle
    /\ \E sendOk \in BOOLEAN :
         LET r == summarize(output, totalRecords, params.authorId, sendOk) IN
         /\ summary' = summary \o r.report
         /\ notices' = notices \o r.sends
         /\ log' = log \cup Range(r.logs)
         /\ stage' = IF r.threw THEN "Failed" ELSE "Done"
    /\ UNCHANGED <<params, totalRecords, input, mapErrors, shuffle, reduced,
                   reduceErrors, output, calls, emailSent>>

Next ==
    \/ getInputData(MaxRecords)
    \/ MapStep(RunRecords)
    \/ Shuffle
    \/ ReduceStep
    \/ SummarizeStep

Spec == Init /\ [][Next]_vars

NextMap ==
    \/ getInputData(MaxMapRecords)
    \/ MapStep(RawRecords)

\* the map stage alone, over every shape of search result
SpecMap == Init /\ [][NextMap]_vars

\* a deployment described with a fourth setting, the address of the
\* operational report, of which at least one setting is absent; the script
\* has no parameter for the address and never reads one
IncompleteConfigs ==
    { p \in [searchId : {<<"customsearch_ach">>, EMPTY},
             printTemplateId : {<<"CUSTTMPL_ACH">>, EMPTY},
             authorId : {<<"55">>, EMPTY},
             opsRecipient : {<<"ops@x.com">>, EMPTY}] :
        \/ p.searchId = EMPTY \/ p.printTemplateId = EMPTY
        \/ p.authorId = EMPTY \/ p.opsRecipient = EMPTY }

\* the number of reduce invocations made again so far: every ordinary
\* invocation begins with the template lookup, every reserved one writes
\* one output
RestartsMade ==
    Cardinality(UNION { { <<key, i>> : i \in { h \in 1..Len(calls[key]) :
                                                calls[key][h].op = "findTemplate" } } :
                        key \in DOMAIN calls })
    + Len(output) - Cardinality(reduced)

\* the calls of an invocation other than its send and its saves
withoutSendAndSaves(cs) ==
    LET Kept(c) == c.op # "send" /\ c.op # "save" IN SelectSeq(cs, Kept)

\* ReduceRestart leaving out the send and the saves of a group whose payments
\* are all flagged already
ReduceRestart_dedup ==
    /\ stage = "Generating-And-Notifying"
    /\ \E key \in reduced :
       \E oc \in Outcomes(paymentsOf(key, shuffle[key])) :
         LET r == reduce(key, shuffle[key], params.authorId, oc)
             done == \A id \in paymentsOf(key, shuffle[key]) : emailSent[id]
             cs == IF done THEN withoutSendAndSaves(r.calls) ELSE r.calls
         IN
         /\ RestartsMade < MaxRestarts
         /\ \A id \in paymentsOf(key, shuffle[key]) : emailSent[id]
         /\ reduceErrors' = IF r.threw THEN reduceErrors \cup {key} ELSE reduceErrors
         /\ output' = output \o r.writes
         /\ calls' = [calls EXCEPT ![key] = @ \o cs]
         /\ emailSent' = [id \in DOMAIN emailSent |->
                            emailSent[id] \/ id \in savedBy(cs)]
         /\ log' = log \cup Range(r.logs)
    /\ UNCHANGED <<stage, params, totalRecords, input, mapErrors, shuffle, reduced,
                   summary, notices>>

\* the framework makes the reduce invocation of a key again (the invocation
\* or the run was restarted) after the key's payments have all been flagged:
\* reduce runs as the first time, on the same values
ReduceRestart ==
    /\ stage = "Generating-And-Notifying"
    /\ \E key \in reduced :
       \E oc \in Outcomes(paymentsOf(key, shuffle[key])) :
         LET r == reduce(key, shuffle[key], params.authorId, oc) IN
         /\ RestartsMade < MaxRestarts
         /\ \A id \in paymentsOf(key, shuffle[key]) : emailSent[id]
         /\ reduceErrors' = IF r.threw THEN reduceErrors \cup {key} ELSE reduceErrors
         /\ output' = output \o r.writes
         /\ calls' = [calls EXCEPT ![key] = @ \o r.calls]
         /\ emailSent' = [id \in DOMAIN emailSent |->
                            emailSent[id] \/ id \in savedBy(r.calls)]
         /\ log' = log \cup Range(r.logs)
    /\ UNCHANGED <<stage, params, totalRecords, input, mapErrors, shuffle, reduced,
                   summary, notices>>

\* the shapes of search result of the runs with repeated invocations
RestartRecords ==
    { Valid(<<"101">>, <<"7">>),
      Raw("ok", <<"101">>, <<"7">>, <<"Vendor">>, <<"1/2/2025">>, <<"PAY7">>, EMPTY, EMPTY) }

NextRestart ==
    \/ getInputData(MaxRestartRecords)
    \/ MapStep(RestartRecords)
    \/ Shuffle
    \/ ReduceStep
    \/ ReduceRestart
    \/ SummarizeStep

\* the whole run with repeated reduce invocations
SpecRestart == Init /\ [][NextRestart]_vars

\* the whole run when the framework keeps scheduling: each stage is started
\* once the one before has ended, and every pending map or reduce invocation
\* is eventually made
NextFair ==
    \/ getInputData(MaxFairRecords)
    \/ MapStep(RunRecords)
    \/ Shuffle
    \/ ReduceStep
    \/ SummarizeStep

SpecFair == Init /\ [][NextFair]_vars /\ WF_vars(NextFair)

\* the shapes of search result of the runs in which a payment's account and
\* vendor spell a reserved key, or the account has the separator in it
KeyRecords ==
    { Valid(<<"ERROR">>, <<"RECORDS">>), Valid(<<"101">>, <<"7">>),
      Valid(<<"10", "_", "1">>, <<"7">>),
      Raw("ok", <<"101">>, <<"7">>, <<"Vendor">>, <<"1/2/2025">>, <<"PAY7">>, EMPTY, EMPTY) }

NextKeys ==
    \/ getInputData(MaxRecords)
    \/ MapStep(KeyRecords)
    \/ Shuffle
    \/ ReduceStep
    \/ SummarizeStep

\* the whole run over these shapes
SpecKeys == Init /\ [][NextKeys]_vars

\* the shapes of search result of the runs over two different (account,
\* vendor) pairs whose values have the separator in them, and a plain pair
PairRecords ==
    { Valid(<<"10", "_", "1">>, <<"7">>), Valid(<<"10">>, <<"1", "_", "7">>),
      Valid(<<"101">>, <<"7">>) }

NextPairs ==
    \/ getInputData(MaxPairRecords)
    \/ MapStep(PairRecords)
    \/ Shuffle
    \/ ReduceStep
    \/ SummarizeStep

\* the whole run over these shapes
SpecPairs == Init /\ [][NextPairs]_vars

\* the runs of the deployments that lack a setting
SpecConfig == InitOver(IncompleteConfigs) /\ [][Next]_vars

(***************************************************************************)
(* Vocabulary of the properties.                                           *)
(***************************************************************************)
Reserved(key) == key \in {<<"SKIPPED", "_", "RECORDS">>, <<"ERROR", "_", "RECORDS">>}

\* the keys of the ordinary groups
OrdinaryKeys == { key \in DOMAIN shuffle : ~Reserved(key) }

\* the required fields of a search result that are missing, in check order
RequiredFields == <<"account", "entity", "transaction date", "transaction ID", "vendor email">>
FieldOf(raw, name) ==
    CASE name = "account" -> raw.account_value
      [] name = "entity" -> raw.entity_value
      [] name = "transaction date" -> raw.trandate
      [] name = "transaction ID" -> raw.tranid
      [] name = "vendor email" -> raw.email_vendor
IsMissing(raw, name) == FieldOf(raw, name) = << >>
ExpectedMissing(raw) ==
    LET Test(name) == IsMissing(raw, name) IN SelectSeq(RequiredFields, Test)

\* a search result with a `values` object and nothing required missing
IsValid(raw) == raw.kind = "ok" /\ ExpectedMissing(raw) = << >>
\* a search result with a `values` object and something required missing
IsIncomplete(raw) == raw.kind = "ok" /\ ExpectedMissing(raw) # << >>
\* a search result that makes the try block of map throw
IsMalformed(raw) == raw.kind # "ok"

\* the mapped payments that belong to the group of a key
Members(key) ==
    { id \in DOMAIN input :
        IsValid(input[id]) /\
        input[id].account_value \o <<"_">> \o input[id].entity_value = key }

\* the positions of the calls of a reduce invocation with a given op
CallsAt(key, op) == { i \in 1..Len(calls[key]) : calls[key][i].op = op }
OkCallsAt(key, op) == { i \in CallsAt(key, op) : calls[key][i].ok }
FailedCallsAt(key, op) == { i \in CallsAt(key, op) : ~calls[key][i].ok }

\* the entries under a key of the map output that are about a record
EntriesOf(key, id) ==
    IF key \in DOMAIN shuffle
    THEN { i \in 1..Len(shuffle[key]) :
             \/ "recordId" \in DOMAIN shuffle[key][i] /\ shuffle[key][i].recordId = id
             \/ "orderId" \in DOMAIN shuffle[key][i] /\ shuffle[key][i].orderId = id }
    ELSE {}

\* the log has an entry with this title about this context
Logged(title, ctx) == [title |-> title, ctx |-> ctx] \in log

(***************************************************************************)
(* C1: a payment's email-sent field is true only if the reduce invocation *)
(* of the payment's own (account, vendor) group made a send that          *)
(* succeeded, and made it before it saved the payment.                     *)
(***************************************************************************)
C1_FlagOnlyAfterSuccessfulSend ==
    \A id \in DOMAIN emailSent :
        emailSent[id] =>
            /\ id \in DOMAIN input
            /\ IsValid(input[id])
            /\ LET key == input[id].account_value \o <<"_">> \o input[id].entity_value IN
               /\ key \in DOMAIN calls
               /\ \E i \in OkCallsAt(key, "send") : \E j \in OkCallsAt(key, "save") :
                     i < j /\ calls[key][j].arg = <<id>>

\* a payment is flagged
C1_Witness == \E id \in DOMAIN emailSent : emailSent[id]

(***************************************************************************)
(* C2: for every search result that has a `values` object and lacks at    *)
(* least one required field, map writes exactly one entry, under          *)
(* SKIPPED_RECORDS, whose missingFields is the list of every missing      *)
(* field in the order account, entity, transaction date, transaction ID,  *)
(* vendor email, whose errorNote names them all, and writes nothing under *)
(* any other key; the invocation does not throw.                           *)
(***************************************************************************)
C2_IncompleteRecordIsSkipped ==
    \A id \in DOMAIN input :
        IsIncomplete(input[id]) =>
            /\ Cardinality(EntriesOf(SKIPPED_RECORDS, id)) = 1
            /\ \A i \in EntriesOf(SKIPPED_RECORDS, id) :
                  /\ shuffle[SKIPPED_RECORDS][i].missingFields = ExpectedMissing(input[id])
                  /\ \A n \in 1..Len(RequiredFields) :
                        IsMissing(input[id], RequiredFields[n]) <=>
                        \E c \in 1..Len(shuffle[SKIPPED_RECORDS][i].errorNote) :
                            shuffle[SKIPPED_RECORDS][i].errorNote[c] = RequiredFields[n]
            /\ \A key \in DOMAIN shuffle \ {SKIPPED_RECORDS} : EntriesOf(key, id) = {}
            /\ id \notin mapErrors

\* a record that lacks several required fields, the first one among them
\* not being the account, has been mapped
C2_Witness ==
    \E id \in DOMAIN input :
        /\ IsIncomplete(input[id])
        /\ Len(ExpectedMissing(input[id])) >= 3
        /\ ~IsMissing(input[id], "account")
        /\ EntriesOf(SKIPPED_RECORDS, id) # {}

(***************************************************************************)
(* C3: for every search result that makes the try block of map throw, map *)
(* writes exactly one entry for the record under ERROR_RECORDS and the    *)
(* invocation does not throw.                                              *)
(***************************************************************************)
C3_MalformedRecordIsRoutedToErrors ==
    \A id \in DOMAIN input :
        IsMalformed(input[id]) =>
            /\ Cardinality(EntriesOf(ERROR_RECORDS, id)) = 1
            /\ id \notin mapErrors

(***************************************************************************)
(* C4: when the template lookup of an ordinary group finds no mapping,    *)
(* the invocation makes no send and no save, no payment of the group is   *)
(* flagged, the lookup error is logged for the account, and the           *)
(* invocation returns normally.                                            *)
(***************************************************************************)
C4_NoTemplateNoEmailNoFlag ==
    \A key \in DOMAIN calls :
        FailedCallsAt(key, "findTemplate") # {} =>
            /\ CallsAt(key, "send") = {}
            /\ CallsAt(key, "save") = {}
            /\ CallsAt(key, "render") = {}
            /\ \A id \in Members(key) : ~emailSent[id]
            /\ \A i \in FailedCallsAt(key, "findTemplate") :
                  Logged("searchRelatedEmailTemplate", calls[key][i].arg)
            /\ Logged("reduce", key)
            /\ key \in reduced /\ key \notin reduceErrors

\* a group without template mapping was processed, and another group's
\* email was sent in the same run
C4_Witness ==
    \E key \in DOMAIN calls : \E other \in DOMAIN calls :
        /\ FailedCallsAt(key, "findTemplate") # {}
        /\ Members(key) # {}
        /\ other # key
        /\ OkCallsAt(other, "send") # {}

(***************************************************************************)
(* C5: when the send of an ordinary group fails, no payment of the group  *)
(* is flagged, the failure is logged as 'sendEmail' and the invocation    *)
(* returns normally, and the failed send is the last call made: the       *)
(* vouchers rendered before it stay as they are.                           *)
(***************************************************************************)
C5_FailedSendFlagsNothing ==
    \A key \in DOMAIN calls :
        FailedCallsAt(key, "send") # {} =>
            /\ CallsAt(key, "save") = {}
            /\ \A id \in Members(key) : ~emailSent[id]
            /\ Logged("sendEmail", key)
            /\ key \in reduced /\ key \notin reduceErrors
            /\ \A i \in FailedCallsAt(key, "send") :
                  /\ i = Len(calls[key])
                  /\ Len(calls[key][i].att) = Cardinality(OkCallsAt(key, "render"))

\* a send failed for a group with a rendered voucher
C5_Witness ==
    \E key \in DOMAIN calls :
        /\ FailedCallsAt(key, "send") # {}
        /\ OkCallsAt(key, "render") # {}
        /\ Cardinality(Members(key)) >= 2

(***************************************************************************)
(* C6 as stated: for every ordinary group of N payments with a template   *)
(* mapping where rendering fails for k payments, 0 < k < N, and no save   *)
(* fails, the invocation makes exactly one send, with N-k attachments;    *)
(* all N payments are flagged if the send succeeds and none if it fails.  *)
(***************************************************************************)
C6_PartialRenderOneSend ==
    \A key \in DOMAIN calls :
        LET N == Cardinality(Members(key))
            k == Cardinality(FailedCallsAt(key, "render"))
        IN  ( /\ OkCallsAt(key, "findTemplate") # {}
              /\ 0 < k /\ k < N
              /\ FailedCallsAt(key, "save") = {} ) =>
            /\ Cardinality(CallsAt(key, "send")) = 1
            /\ \A i \in CallsAt(key, "send") :
                  /\ Len(calls[key][i].att) = N - k
                  /\ calls[key][i].ok => \A id \in Members(key) : emailSent[id]
                  /\ ~calls[key][i].ok => \A id \in Members(key) : ~emailSent[id]

(***************************************************************************)
(* C6 amended: the same, for the groups whose template merge succeeds     *)
(* (when render.mergeEmail throws, no send is made at all).                *)
(***************************************************************************)
C6_PartialRenderOneSendAfterMerge ==
    \A key \in DOMAIN calls :
        LET N == Cardinality(Members(key))
            k == Cardinality(FailedCallsAt(key, "render"))
        IN  ( /\ OkCallsAt(key, "findTemplate") # {}
              /\ 0 < k /\ k < N
              /\ OkCallsAt(key, "merge") # {}
              /\ FailedCallsAt(key, "save") = {} ) =>
            /\ Cardinality(CallsAt(key, "send")) = 1
            /\ \A i \in CallsAt(key, "send") :
                  /\ Len(calls[key][i].att) = N - k
                  /\ calls[key][i].ok => \A id \in Members(key) : emailSent[id]
                  /\ ~calls[key][i].ok => \A id \in Members(key) : ~emailSent[id]

\* a group whose first voucher failed and whose second one was rendered
\* was sent with one attachment, and both payments are flagged
C6_Witness ==
    \E key \in DOMAIN calls :
        /\ Cardinality(Members(key)) = 2
        /\ Len(calls[key]) >= 3
        /\ calls[key][2].op = "render" /\ ~calls[key][2].ok
        /\ calls[key][3].op = "render" /\ calls[key][3].ok
        /\ \E i \in OkCallsAt(key, "send") : Len(calls[key][i].att) = 1
        /\ \A id \in Members(key) : emailSent[id]

(***************************************************************************)
(* C7: after a successful send, a save that throws for one payment leaves *)
(* exactly that payment unflagged: the failure is logged, the send        *)
(* stands, and every other payment of the group is flagged.                *)
(***************************************************************************)
C7_SaveFailureIsPerPayment ==
    \A key \in DOMAIN calls :
        \A i \in FailedCallsAt(key, "save") :
            /\ OkCallsAt(key, "send") # {}
            /\ Logged("sendEmail", key)
            /\ \A id \in Members(key) :
                  emailSent[id] <=> <<id>> # calls[key][i].arg

(***************************************************************************)
(* C8: a reduce invocation of an ordinary group makes at most one send    *)
(* and at most N saves, N the size of the group, each for a payment of    *)
(* the group.                                                              *)
(***************************************************************************)
C8_AtMostOneSendAndNSaves ==
    \A key \in DOMAIN calls :
        /\ Cardinality(CallsAt(key, "send")) <= 1
        /\ Cardinality(CallsAt(key, "save")) <= Cardinality(Members(key))
        /\ \A i \in CallsAt(key, "save") : calls[key][i].arg[1] \in Members(key)

\* a group of two was sent and both payments saved, and another group's
\* send failed
C8_Witness ==
    \E key \in DOMAIN calls : \E other \in DOMAIN calls :
        /\ Cardinality(Members(key)) = 2
        /\ Cardinality(OkCallsAt(key, "save")) = 2
        /\ FailedCallsAt(other, "send") # {}

(***************************************************************************)
(* C9: for every valid search result map writes exactly one entry, an     *)
(* order object with the record's id, under the key made of the account   *)
(* value, "_" and the entity value, and nothing under any other key; two  *)
(* valid results are under the same key exactly when their account and    *)
(* entity values are equal, and a key is reduced by one invocation that   *)
(* renders for every payment of the group.                                 *)
(***************************************************************************)
C9_ValidRecordsGroupByAccountAndVendor ==
    /\ \A id \in DOMAIN input :
          IsValid(input[id]) =>
            LET key == input[id].account_value \o <<"_">> \o input[id].entity_value IN
            /\ Cardinality(EntriesOf(key, id)) = 1
            /\ \A i \in EntriesOf(key, id) :
                  /\ shuffle[key][i].orderId = id
                  /\ shuffle[key][i].accountId = key
            /\ \A other \in DOMAIN shuffle \ {key} : EntriesOf(other, id) = {}
            /\ id \notin mapErrors
    /\ \A id1 \in DOMAIN input : \A id2 \in DOMAIN input :
          (IsValid(input[id1]) /\ IsValid(input[id2])) =>
            ( ( /\ input[id1].account_value = input[id2].account_value
                /\ input[id1].entity_value = input[id2].entity_value )
              <=> \E key \in DOMAIN shuffle :
                    EntriesOf(key, id1) # {} /\ EntriesOf(key, id2) # {} )
    /\ \A key \in DOMAIN calls :
          OkCallsAt(key, "findTemplate") # {} =>
            { calls[key][i].arg[1] : i \in CallsAt(key, "render") } = Members(key)

\* what holds of C9: one order per valid record under the concatenated key,
\* and records with equal account and entity values under the same key
C9_EqualPairsShareAGroup ==
    /\ \A id \in DOMAIN input :
          IsValid(input[id]) =>
            LET key == input[id].account_value \o <<"_">> \o input[id].entity_value IN
            /\ Cardinality(EntriesOf(key, id)) = 1
            /\ \A other \in DOMAIN shuffle \ {key} : EntriesOf(other, id) = {}
    /\ \A id1 \in DOMAIN input : \A id2 \in DOMAIN input :
          ( /\ IsValid(input[id1]) /\ IsValid(input[id2])
            /\ input[id1].account_value = input[id2].account_value
            /\ input[id1].entity_value = input[id2].entity_value ) =>
              \E key \in DOMAIN shuffle :
                 EntriesOf(key, id1) # {} /\ EntriesOf(key, id2) # {}

(***************************************************************************)
(* C10: the report's successfullyProcessed is the number of ordinary      *)
(* group keys that the reduce stage processed.                             *)
(***************************************************************************)
C10_SuccessfullyProcessedCountsGroups ==
    stage = "Done" =>
        /\ Len(summary) = 1
        /\ summary[1].successfullyProcessed = Cardinality(OrdinaryKeys \cap reduced)

(***************************************************************************)
(* More vocabulary: the side-channel buckets as the map stage filled them *)
(***************************************************************************)
Bucket(key) == IF key \in DOMAIN shuffle THEN shuffle[key] ELSE << >>
SkippedBucket == Bucket(<<"SKIPPED", "_", "RECORDS">>)
ErrorBucket == Bucket(<<"ERROR", "_", "RECORDS">>)

\* every collaborator call of every group succeeded
AllCallsOk == \A key \in DOMAIN calls : \A i \in 1..Len(calls[key]) : calls[key][i].ok

(***************************************************************************)
(* C11: at the end of a run, the report's successfullyProcessed plus its  *)
(* skipped count plus its error count is the number of distinct keys      *)
(* (groups and buckets) that the map output was grouped into.              *)
(***************************************************************************)
C11_ReportCountsAddUpToKeys ==
    stage = "Done" =>
        /\ Len(summary) = 1
        /\ summary[1].successfullyProcessed + summary[1].skippedRecords.count
             + summary[1].errorRecords.count = Cardinality(DOMAIN shuffle)

(***************************************************************************)
(* C12: the run over a complete record of account 101 / vendor 7, a       *)
(* record that lacks only the vendor email and a complete record of       *)
(* account 101 / vendor 8, every collaborator call succeeding, forms two  *)
(* groups, skips the incomplete record for "vendor email", sends two      *)
(* vendor emails, flags two payments and reports successfullyProcessed =  *)
(* 2, skipped = 1, errors = 0.                                             *)
(***************************************************************************)
C12_Scenario ==
    /\ stage = "Done"
    /\ totalRecords = 3
    /\ \E a \in DOMAIN input : \E b \in DOMAIN input : \E c \in DOMAIN input :
          /\ input[a].kind = "ok" /\ input[b].kind = "ok" /\ input[c].kind = "ok"
          /\ ExpectedMissing(input[a]) = << >>
          /\ input[a].account_value = <<"101">> /\ input[a].entity_value = <<"7">>
          /\ ExpectedMissing(input[b]) = <<"vendor email">>
          /\ ExpectedMissing(input[c]) = << >>
          /\ input[c].account_value = <<"101">> /\ input[c].entity_value = <<"8">>
    /\ AllCallsOk

C12_EndToEnd ==
    C12_Scenario =>
        /\ Cardinality(OrdinaryKeys) = 2
        /\ Len(SkippedBucket) = 1
        /\ SkippedBucket[1].missingFields = <<"vendor email">>
        /\ Cardinality({ key \in DOMAIN calls : OkCallsAt(key, "send") # {} }) = 2
        /\ \A key \in DOMAIN calls : Cardinality(CallsAt(key, "send")) <= 1
        /\ Cardinality({ id \in DOMAIN emailSent : emailSent[id] }) = 2
        /\ Len(summary) = 1
        /\ summary[1].successfullyProcessed = 2
        /\ summary[1].skippedRecords.count = 1
        /\ summary[1].errorRecords.count = 0

(***************************************************************************)
(* C13 as stated: when any of the four settings (search, author, print    *)
(* template, operational-report address) is absent, the run never gets    *)
(* past the input stage.                                                   *)
(***************************************************************************)
NothingProcessed ==
    /\ input = << >> /\ shuffle = << >> /\ calls = << >> /\ notices = << >>
    /\ \A id \in DOMAIN emailSent : ~emailSent[id]

C13_AnyOfFourSettingsAbsentAborts ==
    (\E f \in DOMAIN params : params[f] = << >>) =>
        /\ stage \in {"Collecting Input", "Aborted"}
        /\ NothingProcessed

(***************************************************************************)
(* What holds of C13: the three script parameters (search, print template, *)
(* author) are required: when any of them is absent, getInputData aborts  *)
(* the run before any record is mapped, nothing is sent or flagged, and   *)
(* the logged message names exactly the missing parameters.  The address  *)
(* of the operational report is a literal of the script, not a setting:   *)
(* every notification goes to it.                                          *)
(***************************************************************************)
ParamNames ==
    [searchId |-> "Eligible ACH Payments Search",
     printTemplateId |-> "Print Template ID",
     authorId |-> "Email Author"]

C13_AnyOfThreeParametersAbsentAborts ==
    /\ (\E f \in DOMAIN ParamNames : params[f] = << >>) =>
          /\ stage \in {"Collecting Input", "Aborted"}
          /\ NothingProcessed
          /\ stage = "Aborted" =>
                /\ Cardinality(log) = 1
                /\ \A l \in log :
                      /\ l.title = "Error in getInputData"
                      /\ \A f \in DOMAIN ParamNames :
                            params[f] = << >> <=>
                            \E c \in 1..Len(l.ctx) : l.ctx[c] = ParamNames[f]
    /\ \A n \in 1..Len(notices) :
          notices[n].email.recipients = <<"admin@yourcompany.com">>

\* a run was aborted for two missing parameters
C13_Witness ==
    /\ stage = "Aborted"
    /\ params.printTemplateId = << >> /\ params.authorId = << >>
    /\ params.searchId # << >>
    /\ log # {}

(***************************************************************************)
(* C14: summarize makes exactly one send of the operational notification  *)
(* when the skipped bucket or the error bucket has an entry and none when *)
(* both are empty (no other stage sends one); the subject carries the     *)
(* number of skipped entries and the number of error entries.             *)
(***************************************************************************)
C14_OneNotificationIffBucketNonEmpty ==
    /\ stage # "Done" => notices = << >>
    /\ stage = "Done" =>
          IF Len(SkippedBucket) > 0 \/ Len(ErrorBucket) > 0
          THEN /\ Len(notices) = 1
               /\ notices[1].email.subject =
                     <<"ACH Payment Processing Report: ", ToString(Len(SkippedBucket)),
                       " Skipped, ", ToString(Len(ErrorBucket)), " Errors">>
          ELSE notices = << >>

\* a run ended with entries in the error bucket only and one notification
C14_Witness ==
    /\ stage = "Done"
    /\ SkippedBucket = << >>
    /\ Len(ErrorBucket) = 2
    /\ Len(notices) = 1
    /\ notices[1].email.subject[2] = "0" /\ notices[1].email.subject[4] = "2"

(***************************************************************************)
(* C15: the body of every operational notification has one table row per  *)
(* entry of the skipped bucket, with that entry's transaction id, vendor,  *)
(* account and error note, and one row per entry of the error bucket.      *)
(***************************************************************************)
C15_BodyListsEverySkippedAndErrorRecord ==
    \A n \in 1..Len(notices) :
        LET body == notices[n].email.body IN
        /\ Len(body.skippedRows) = Len(SkippedBucket)
        /\ \A i \in 1..Len(SkippedBucket) :
              \A f \in {"tranid", "entity", "accountId", "errorNote"} :
                 body.skippedRows[i][f] = field(SkippedBucket[i], f)
        /\ Len(body.errorRows) = Len(ErrorBucket)

(***************************************************************************)
(* C16: when the send of the operational notification fails, summarize    *)
(* logs the error, does not send again and does not fail the stage (the   *)
(* run is Done), and the report it logged before is the one report of the *)
(* run, with the counts and the details of the two buckets.                *)
(***************************************************************************)
DetailFields == {"recordId", "tranid", "entity", "accountId", "entityId", "errorNote"}

ReportMatches(part, bucket) ==
    /\ part.count = Len(bucket)
    /\ Len(part.details) = Len(bucket)
    /\ \A i \in 1..Len(bucket) :
          \A f \in DetailFields : part.details[i][f] = field(bucket[i], f)

C16_NotificationFailureIsContained ==
    /\ stage # "Failed"
    /\ (\E n \in 1..Len(notices) : ~notices[n].ok) =>
          /\ Len(notices) = 1
          /\ Logged("Error in summarize stage", <<"email.send">>)
          /\ stage = "Done"
          /\ Len(summary) = 1
          /\ summary[1].totalRecordsProcessed = totalRecords
          /\ ReportMatches(summary[1].skippedRecords, SkippedBucket)
          /\ ReportMatches(summary[1].errorRecords, ErrorBucket)

\* the notification of a run with two skipped records failed to be sent
C16_Witness ==
    /\ stage = "Done"
    /\ Len(notices) = 1 /\ ~notices[1].ok
    /\ Len(SkippedBucket) = 2
    /\ Len(summary) = 1 /\ summary[1].skippedRecords.count = 2

(***************************************************************************)
(* C17: under fairness, every run that got past getInputData (parameters  *)
(* set, search loaded) eventually reaches Done, whatever records are      *)
(* malformed and whatever template lookups, renders, merges, sends and    *)
(* saves fail; a run halts only with the error of getInputData logged.    *)
(***************************************************************************)
C17_ValidConfigurationReachesDone ==
    /\ (stage = "Normalizing") ~> (stage = "Done")
    /\ [](stage \in {"Aborted", "Failed"} =>
            \E l \in log : l.title = "Error in getInputData")

\* a run reached Done although a group's send failed and the operational
\* notification failed
C17_Witness ==
    /\ stage = "Done"
    /\ \E key \in DOMAIN calls : \E i \in 1..Len(calls[key]) :
          calls[key][i].op = "send" /\ ~calls[key][i].ok
    /\ \E n \in 1..Len(notices) : ~notices[n].ok

(***************************************************************************)
(* C18 as stated: every order object written under an ordinary key has a  *)
(* non-empty orderId, group key, order date, order number, entity name    *)
(* and vendor email, and a record with a `values` object for which one of *)
(* them would be empty has an entry in the skipped bucket and no order.    *)
(***************************************************************************)
\* the order objects map wrote for a record, as <<key, position>> pairs
OrdersOf(id) ==
    { p \in UNION { { <<key, i>> : i \in 1..Len(shuffle[key]) } : key \in DOMAIN shuffle } :
        /\ "orderId" \in DOMAIN shuffle[p[1]][p[2]]
        /\ shuffle[p[1]][p[2]].orderId = id }

\* the order has the fields that the required-field checks look at
CheckedFieldsPresent(key, order) ==
    /\ order.orderId \in DOMAIN input
    /\ order.accountId = key /\ key # << >>
    /\ order.orderDate # << >>
    /\ order.orderNumber # << >>
    /\ order.vendorEmail # << >>

C18_OrderFieldsNonEmpty ==
    /\ \A key \in OrdinaryKeys : \A i \in 1..Len(shuffle[key]) :
          /\ CheckedFieldsPresent(key, shuffle[key][i])
          /\ shuffle[key][i].entity # << >>
    /\ \A id \in DOMAIN input :
          (input[id].kind = "ok" /\
             (ExpectedMissing(input[id]) # << >> \/ input[id].entity_text = << >>)) =>
                /\ EntriesOf(SKIPPED_RECORDS, id) # {}
                /\ OrdersOf(id) = {}

(***************************************************************************)
(* C18 amended: every order object written under an ordinary key has a    *)
(* non-empty orderId, group key, order date, order number and vendor      *)
(* email (the entity name and the posting period may be empty), and a     *)
(* record with a `values` object whose account value, entity value,       *)
(* transaction date, transaction id or vendor email is empty has an entry *)
(* in the skipped bucket and no order.                                     *)
(***************************************************************************)
C18_CheckedOrderFieldsNonEmpty ==
    /\ \A key \in OrdinaryKeys : \A i \in 1..Len(shuffle[key]) :
          CheckedFieldsPresent(key, shuffle[key][i])
    /\ \A id \in DOMAIN input :
          IsIncomplete(input[id]) =>
                /\ EntriesOf(SKIPPED_RECORDS, id) # {}
                /\ OrdersOf(id) = {}

\* an order with neither entity name nor posting period was written under an
\* ordinary key
C18_Witness ==
    \E key \in OrdinaryKeys : \E i \in 1..Len(shuffle[key]) :
        /\ shuffle[key][i].entity = << >>
        /\ shuffle[key][i].postingPeriod = << >>
        /\ CheckedFieldsPresent(key, shuffle[key][i])

(***************************************************************************)
(* C19: the reduce invocation of a reserved key makes no collaborator     *)
(* call, does not throw, and writes exactly one output entry, under the   *)
(* same key, whose value is the sequence of that key's map entries in     *)
(* arrival order; a payment is flagged only by a save of an ordinary      *)
(* key's invocation; and the details and counts of the report of a        *)
(* finished run are those of the two buckets.                              *)
(***************************************************************************)
OutputsAt(key) == { i \in 1..Len(output) : output[i].key = key }

C19_ReservedKeyPassesThrough ==
    /\ \A key \in reduced :
          Reserved(key) =>
             /\ calls[key] = << >>
             /\ key \notin reduceErrors
             /\ Cardinality(OutputsAt(key)) = 1
             /\ \A i \in OutputsAt(key) : output[i].value = shuffle[key]
    /\ \A id \in DOMAIN emailSent :
          emailSent[id] =>
             \E key \in reduced : ~Reserved(key) /\ id \in savedBy(calls[key])
    /\ stage = "Done" =>
          /\ Len(summary) = 1
          /\ ReportMatches(summary[1].skippedRecords, SkippedBucket)
          /\ ReportMatches(summary[1].errorRecords, ErrorBucket)

\* a run ended with two entries in the skipped bucket and one in the error
\* bucket, both reported
C19_Witness ==
    /\ stage = "Done"
    /\ Len(SkippedBucket) = 2 /\ Len(ErrorBucket) = 1
    /\ Len(summary) = 1
    /\ summary[1].skippedRecords.count = 2 /\ summary[1].errorRecords.count = 1
    /\ \A key \in {SKIPPED_RECORDS, ERROR_RECORDS} : calls[key] = << >>

(***************************************************************************)
(* C21: the reduce invocation of an ordinary group renders and saves only *)
(* payments of that group and sends only to the group's vendor; the       *)
(* payments of the group that are flagged are exactly those its own       *)
(* invocation saved; when every call of the invocation succeeded, the     *)
(* group's email was sent and all its payments are flagged, whatever      *)
(* failed in the other groups; and a later invocation changes neither the *)
(* calls of a group already processed nor the flags of its payments.       *)
(***************************************************************************)
C21_OwnCallsOnly(key) ==
    /\ \A i \in CallsAt(key, "render") \cup CallsAt(key, "save") :
          calls[key][i].arg[1] \in Members(key)
    /\ \A i \in CallsAt(key, "send") :
          \A id \in Members(key) : calls[key][i].arg = input[id].entity_value
    /\ \A id \in Members(key) : emailSent[id] <=> id \in savedBy(calls[key])
    /\ (\A i \in 1..Len(calls[key]) : calls[key][i].ok) =>
          /\ Cardinality(OkCallsAt(key, "send")) = 1
          /\ \A id \in Members(key) : emailSent[id]

C21_GroupsAreIsolated ==
    /\ [](\A key \in reduced : ~Reserved(key) => C21_OwnCallsOnly(key))
    /\ [][\A key \in reduced :
              /\ calls'[key] = calls[key]
              /\ \A id \in Members(key) : emailSent'[id] = emailSent[id]]_vars

\* one group found no template and the other group's email was sent and its
\* payments flagged
C21_Witness ==
    \E k1 \in reduced : \E k2 \in reduced \ {k1} :
        /\ ~Reserved(k1) /\ ~Reserved(k2)
        /\ FailedCallsAt(k1, "findTemplate") # {}
        /\ OkCallsAt(k2, "send") # {}
        /\ Members(k2) # {} /\ \A id \in Members(k2) : emailSent[id]
        /\ \A id \in Members(k1) : ~emailSent[id]

(***************************************************************************)
(* C23: in the calls of the reduce invocation of an ordinary group, every *)
(* send comes after a render attempt (succeeded or failed) for every      *)
(* payment of the group, no render attempt comes after a send or a save,  *)
(* and every save comes after a send that succeeded.                       *)
(***************************************************************************)
C23_SendAndFlagsAfterAllRenders ==
    \A key \in reduced :
        ~Reserved(key) =>
            /\ \A s \in CallsAt(key, "send") : \A id \in Members(key) :
                  \E r \in CallsAt(key, "render") :
                     r < s /\ calls[key][r].arg = <<id>>
            /\ \A r \in CallsAt(key, "render") :
                  \A x \in CallsAt(key, "send") \cup CallsAt(key, "save") : r < x
            /\ \A v \in CallsAt(key, "save") :
                  \E s \in OkCallsAt(key, "send") : s < v

\* a group of two payments, one render failed and one succeeded, was sent
\* and both payments were saved
C23_Witness ==
    \E key \in reduced :
        /\ ~Reserved(key)
        /\ Cardinality(Members(key)) = 2
        /\ Cardinality(OkCallsAt(key, "render")) = 1
        /\ Cardinality(FailedCallsAt(key, "render")) = 1
        /\ Cardinality(OkCallsAt(key, "send")) = 1
        /\ Cardinality(OkCallsAt(key, "save")) = 2

(***************************************************************************)
(* C24: for every ordinary group that was reduced, the render attempts    *)
(* are one per order of the group, in the order in which map wrote the    *)
(* orders; the attachments of each send are the files of the orders whose *)
(* render succeeded, in that same order, without repetition; and the      *)
(* saves follow that order too, from its first order on.                   *)
(***************************************************************************)
\* the transaction ids of the calls with this op, in call order
ArgsOf(key, op) ==
    LET IsOp(c) == c.op = op
        cs == SelectSeq(calls[key], IsOp)
    IN  [i \in 1..Len(cs) |-> cs[i].arg[1]]

\* the order ids of the group as map wrote them
OrderIdsOf(key) == [i \in 1..Len(shuffle[key]) |-> shuffle[key][i].orderId]

\* the files of the orders of the group whose render succeeded, in order
RenderedOf(key) ==
    LET Rendered(id) == \E r \in OkCallsAt(key, "render") : calls[key][r].arg = <<id>>
        ids == SelectSeq(OrderIdsOf(key), Rendered)
    IN  [i \in 1..Len(ids) |-> <<"ACH_Payment_", ids[i], ".pdf">>]

C24_OrderIsPreserved ==
    \A key \in reduced :
        ~Reserved(key) =>
            /\ CallsAt(key, "render") # {} => ArgsOf(key, "render") = OrderIdsOf(key)
            /\ \A s \in CallsAt(key, "send") :
                  /\ calls[key][s].att = RenderedOf(key)
                  /\ \A i, j \in 1..Len(calls[key][s].att) :
                        calls[key][s].att[i] = calls[key][s].att[j] => i = j
            /\ LET saves == ArgsOf(key, "save") IN
               /\ Len(saves) <= Len(OrderIdsOf(key))
               /\ saves = SubSeq(OrderIdsOf(key), 1, Len(saves))

\* a group whose orders were written in the order 2, 1 was sent with both
\* files and both payments saved
C24_Witness ==
    \E key \in reduced :
        /\ ~Reserved(key)
        /\ OrderIdsOf(key) = <<"2", "1">>
        /\ \E s \in OkCallsAt(key, "send") : Len(calls[key][s].att) = 2
        /\ ArgsOf(key, "save") = <<"2", "1">>

(***************************************************************************)
(* C25: when the reduce invocation of a group is made again, it consults  *)
(* no flag and no record of the earlier send: each invocation that gets   *)
(* its merged email makes a send, also when every payment of the group is *)
(* flagged already, and each send that succeeds is followed by the save   *)
(* of the group's first payment again.  The repetition leaves the groups  *)
(* as they were: every output written for a reserved key carries the same *)
(* entries, and the report of the finished run counts each skipped entry  *)
(* once.                                                                   *)
(***************************************************************************)
C25_ReexecutionSendsAgain ==
    /\ \A key \in reduced :
          ~Reserved(key) =>
             /\ Cardinality(CallsAt(key, "send")) = Cardinality(OkCallsAt(key, "merge"))
             /\ \A s \in OkCallsAt(key, "send") :
                   /\ s < Len(calls[key])
                   /\ calls[key][s + 1].op = "save"
                   /\ calls[key][s + 1].arg = <<shuffle[key][1].orderId>>
    /\ \A i \in 1..Len(output) : output[i].value = shuffle[output[i].key]
    /\ stage = "Done" =>
          /\ Len(summary) = 1
          /\ summary[1].skippedRecords.count = Len(SkippedBucket)

\* the email of a group of two payments was sent twice and both payments
\* were saved twice
C25_Witness ==
    \E key \in reduced :
        /\ ~Reserved(key)
        /\ Len(shuffle[key]) = 2
        /\ Cardinality(OkCallsAt(key, "send")) = 2
        /\ Cardinality(OkCallsAt(key, "save")) = 4

\* skipped entries were passed through twice and reported once
C25_WitnessReport ==
    /\ stage = "Done"
    /\ Len(SkippedBucket) = 2
    /\ Cardinality({ i \in 1..Len(output) : output[i].key = <<"SKIPPED", "_", "RECORDS">> }) = 2

(***************************************************************************)
(* C26: every search result that was mapped has exactly one entry in the  *)
(* map output, under one key, and once the map stage has ended the number *)
(* of entries under all keys is the number of search results.              *)
(***************************************************************************)
\* the entries of the map output, as <<key, position>> pairs
AllEntries == UNION { { <<key, i>> : i \in 1..Len(shuffle[key]) } : key \in DOMAIN shuffle }

\* the record an entry is about
RecordOf(entry) ==
    IF "recordId" \in DOMAIN entry THEN entry.recordId ELSE entry.orderId

C26_EveryRecordWrittenOnce ==
    /\ \A id \in DOMAIN input :
          Cardinality({ p \in AllEntries : RecordOf(shuffle[p[1]][p[2]]) = id }) = 1
    /\ stage \in {"Generating-And-Notifying", "Done"} =>
          Cardinality(AllEntries) = totalRecords

\* what holds of C26: no record is written twice, and the records without
\* an entry are those whose map invocation threw
C26_NoRecordWrittenTwice ==
    \A id \in DOMAIN input :
        Cardinality({ p \in AllEntries : RecordOf(shuffle[p[1]][p[2]]) = id })
            = IF id \in mapErrors THEN 0 ELSE 1

(***************************************************************************)
(* C27: for every valid record whose group was reduced, the account the   *)
(* template is looked up for is the record's account value, the vendor    *)
(* the email is merged for and sent to is the record's entity value.       *)
(***************************************************************************)
C27_GroupKeyRoundTrip ==
    \A key \in reduced : \A id \in Members(key) :
        ~Reserved(key) =>
            /\ \A i \in CallsAt(key, "findTemplate") :
                  calls[key][i].arg = input[id].account_value
            /\ \A i \in CallsAt(key, "merge") :
                  calls[key][i].att[2] = parseInt(input[id].entity_value)
            /\ \A i \in CallsAt(key, "send") :
                  calls[key][i].arg = input[id].entity_value

\* what holds of C27: the round trip of the records whose account value and
\* entity value have no separator in them
C27_RoundTripWithoutSeparator ==
    \A key \in reduced : \A id \in Members(key) :
        (/\ ~Reserved(key)
         /\ \A c \in 1..Len(input[id].account_value) : input[id].account_value[c] # "_"
         /\ \A c \in 1..Len(input[id].entity_value) : input[id].entity_value[c] # "_") =>
            /\ \A i \in CallsAt(key, "findTemplate") :
                  calls[key][i].arg = input[id].account_value
            /\ \A i \in CallsAt(key, "send") :
                  calls[key][i].arg = input[id].entity_value

(***************************************************************************)
(* C28: the order of a valid record is never written under a reserved     *)
(* key: every entry under SKIPPED_RECORDS or ERROR_RECORDS is a           *)
(* side-channel entry (it has a recordId and an errorNote, not an         *)
(* orderId), and every entry under another key is an order.                *)
(***************************************************************************)
C28_GroupKeyNeverReserved ==
    /\ \A id \in DOMAIN input :
          IsValid(input[id]) =>
             ~Reserved(input[id].account_value \o <<"_">> \o input[id].entity_value)
    /\ \A key \in DOMAIN shuffle : \A i \in 1..Len(shuffle[key]) :
          IF Reserved(key)
          THEN "orderId" \notin DOMAIN shuffle[key][i] /\ "errorNote" \in DOMAIN shuffle[key][i]
          ELSE "orderId" \in DOMAIN shuffle[key][i]

(***************************************************************************)
(* C29 as stated: for every ordinary group with a template mapping in     *)
(* which the render of every payment failed, the invocation makes exactly *)
(* one send, with no attachment, and when the send succeeds every payment *)
(* of the group is flagged.                                                *)
(***************************************************************************)
AllRendersFailed(key) ==
    /\ Members(key) # {}
    /\ OkCallsAt(key, "findTemplate") # {}
    /\ OkCallsAt(key, "render") = {}
    /\ Cardinality(FailedCallsAt(key, "render")) = Cardinality(Members(key))

C29_AllRendersFailedStillSends ==
    \A key \in DOMAIN calls :
        AllRendersFailed(key) =>
            /\ Cardinality(CallsAt(key, "send")) = 1
            /\ \A i \in CallsAt(key, "send") :
                  /\ calls[key][i].att = << >>
                  /\ calls[key][i].ok => \A id \in Members(key) : emailSent[id]

(***************************************************************************)
(* C29 amended: the same for the groups whose template merge succeeds,    *)
(* the payments being all flagged when the send succeeds and no save      *)
(* fails.                                                                  *)
(***************************************************************************)
C29_AllRendersFailedStillSendsAfterMerge ==
    \A key \in DOMAIN calls :
        (AllRendersFailed(key) /\ OkCallsAt(key, "merge") # {}) =>
            /\ Cardinality(CallsAt(key, "send")) = 1
            /\ \A i \in CallsAt(key, "send") :
                  /\ calls[key][i].att = << >>
                  /\ (calls[key][i].ok /\ FailedCallsAt(key, "save") = {}) =>
                        \A id \in Members(key) : emailSent[id]

\* the email of a group of two payments, neither rendered, was sent without
\* attachment and both payments are flagged
C29_Witness ==
    \E key \in DOMAIN calls :
        /\ AllRendersFailed(key)
        /\ Cardinality(Members(key)) = 2
        /\ \E i \in OkCallsAt(key, "send") : calls[key][i].att = << >>
        /\ \A id \in Members(key) : emailSent[id]

(***************************************************************************)
(* C30: when render.mergeEmail throws for a group, reduce logs the error  *)
(* under 'reduce' and returns normally; the invocation makes no send and  *)
(* no save, and no payment of the group is flagged.                        *)
(***************************************************************************)
C30_MergeFailureIsPerGroup ==
    \A key \in DOMAIN calls :
        FailedCallsAt(key, "merge") # {} =>
            /\ CallsAt(key, "send") = {}
            /\ CallsAt(key, "save") = {}
            /\ \A id \in Members(key) : ~emailSent[id]
            /\ Logged("reduce", key)
            /\ key \notin reduceErrors

\* the merge of a group of two rendered payments failed and the run ended
C30_Witness ==
    /\ stage = "Done"
    /\ \E key \in DOMAIN calls :
          /\ FailedCallsAt(key, "merge") # {}
          /\ Cardinality(Members(key)) = 2
          /\ Cardinality(OkCallsAt(key, "render")) = 2
          /\ \A id \in Members(key) : ~emailSent[id]

====
